---- MODULE Spec2Model ----
(***************************************************************************)
(* Redis-backed token bucket rate limiter (limiter.RedisTokenBucket) and   *)
(* the gin middleware that calls it.                                       *)
(*                                                                         *)
(* Token amounts are float64 in the program.  They are modelled exactly as *)
(* integers counting 1/One of a token; every capacity and refill rate of   *)
(* the model is a multiple of 1/One, so that min, +, * and - are exact.    *)
(* Real time is counted in ticks, TicksPerSec to the second: the store's   *)
(* expiry works on real time, time.Now().Unix() truncates it to seconds.   *)
(***************************************************************************)
EXTENDS Integers, Sequences, FiniteSets, TLC

\* ------------------------------------------------------------------ bounds
One == 2            \* one token, in model units (resolution of token amounts)
TicksPerSec == 2    \* resolution of real time
MaxTime == 3        \* last tick of real time explored
MaxCapacity == 2    \* largest capacity, in whole tokens
MaxTtl == 1         \* largest ttl, in seconds
SeqMaxTime == 6     \* last tick explored with a single caller

Procs == {"r1", "r2"}                    \* concurrent requests (gin goroutines)
Ips == {"", "10.0.0.1"}                  \* c.ClientIP(): "" when undeterminable

\* float64 amounts of the model: multiples of 1/One
Capacities == {One, MaxCapacity * One}     \* 1 token and MaxCapacity tokens
RefillRates == {0, 1, One}                 \* 0, 1/One and 1 token per second
Ttls == {MaxTtl}
\* with a single caller: every whole capacity, also 2 tokens per second, and
\* ttls of up to MaxTtl + 1 seconds
SeqCapacities == {c * One : c \in 1..MaxCapacity}
SeqRefillRates == RefillRates \cup {2 * One}
SeqTtls == 1..(MaxTtl + 1)

\* HTTP status codes used by the middleware
StatusBadRequest == 400
StatusTooManyRequests == 429
StatusTemporaryRedirect == 307

VARIABLES
    cfg,        \* the RedisTokenBucket: capacity, refillRate, ttl
    time,       \* real time, in ticks
    skew,       \* wall clock of the service minus real time, in seconds
    store,      \* Redis: key -> [val, num, exp]; an absent key is not in DOMAIN
    call,       \* per request: position and locals of middleware/AllowRequest
    interfered, \* history: another call committed to my ip since I sampled now
    probe,      \* history (one caller): tick the call began at; its reads found keys
    streak,     \* history (one caller): calls made within one second on a fresh ip
    chain,      \* history (one caller): denial, refill after 1/refillRate, denial
    lastCommit, \* history (one caller): tick and tokens of the last commit
    reset,      \* history (one caller): the call began after the ttl had elapsed
    err,        \* per request: err != nil after its latest store read
    req,        \* per request: its path, and the route handler gin ran for it
    win,        \* history (one caller): the grants counted since some call began
    snap        \* history, per request: the pairs its ip's keys held since it began

vars == <<cfg, time, skew, store, call, interfered, probe, streak, chain, lastCommit, reset,
          err, req, win, snap>>
obs == <<probe, streak, chain, lastCommit, reset>>
\* what the specifications below leave alone unless they say otherwise
rest == <<err, req, win, snap>>

\* ------------------------------------------------------------ pure helpers
Min(a, b) == IF a <= b THEN a ELSE b

\* time.Now().Unix() of the service, in seconds
Unix == (time \div TicksPerSec) + skew

\* getIPKey: fmt.Sprintf("rate_limit:ip:%s", ip)
\* (variant: the ip left out of the key)
getIPKeyShared(ipaddr) == "rate_limit:ip:"
getIPKey(ipaddr) == "rate_limit:ip:" \o ipaddr

TokensKey(ipaddr) == getIPKey(ipaddr) \o ":tokens"
LastUpdatedKey(ipaddr) == getIPKey(ipaddr) \o ":last_updated"

\* client.Get(ctx, key): the reply, or redis.Nil for an absent key
Present(key) == key \in DOMAIN store
GetVal(key) == store[key].val

\* .Float64() / .Int64() of a reply: strconv parses the stored text.  What the
\* limiter wrote (a float64 in 'f' format, an int64 in base 10) parses back to
\* the number written; text that is not a number gives an error.
Parses(key) == Present(key) /\ store[key].num

\* float64(now - lastUpdated)   (variant: the operands exchanged)
ElapsedReversed(nowv, lastUpdatedv) == lastUpdatedv - nowv
Elapsed(nowv, lastUpdatedv) == nowv - lastUpdatedv

\* math.Min(rtb.capacity, tokens+(elapsed*rtb.refillRate))
\* (variants: the refill term left out; the cap left out)
NewTokensUncapped(tokensv, elapsedv) == tokensv + (elapsedv * cfg.refillRate)
NewTokensNoRefill(tokensv, elapsedv) == Min(cfg.capacity, tokensv)
NewTokens(tokensv, elapsedv) ==
    Min(cfg.capacity, tokensv + (elapsedv * cfg.refillRate))

\* if newTokens >= 1   (variants: "> 1", ">= 0")
HasTokenStrict(newTokensv) == newTokensv > One
HasTokenAny(newTokensv) == newTokensv >= 0
HasToken(newTokensv) == newTokensv >= One

\* pipe.Set(":tokens", newTokens-1, ttl); pipe.Set(":last_updated", now, ttl)
\* (variants: the decrement left out; the two values swapped between the keys)
CommittedTokensNoDecrement(newTokensv) == newTokensv
CommittedTokens(newTokensv) == newTokensv - One
CommittedLastUpdatedSwapped(p) == CommittedTokens(call[p].newTokens)
CommittedLastUpdated(p) == call[p].now
\* the expiry both Sets give their key: Set sends EX/PX only for an
\* expiration > 0, otherwise the key is stored without expiry
\* (variant: the ttl counted twice)
NoExpiry == -1
ExpiryDoubled == time + (2 * cfg.ttl * TicksPerSec)
Expiry == IF cfg.ttl > 0 THEN time + (cfg.ttl * TicksPerSec) ELSE NoExpiry

\* (variant: only the tokens key is written)
SetTokensOnly(ipaddr, tokensv, lastv) ==
    [k \in DOMAIN store \cup {TokensKey(ipaddr)} |->
        IF k = TokensKey(ipaddr) THEN [val |-> tokensv, num |-> TRUE, exp |-> Expiry]
        ELSE store[k]]
SetBoth(ipaddr, tokensv, lastv) ==
    [k \in DOMAIN store \cup {TokensKey(ipaddr), LastUpdatedKey(ipaddr)} |->
        IF k = TokensKey(ipaddr) THEN [val |-> tokensv, num |-> TRUE, exp |-> Expiry]
        ELSE IF k = LastUpdatedKey(ipaddr)
             THEN [val |-> lastv, num |-> TRUE, exp |-> Expiry]
        ELSE store[k]]

\* the store after the MULTI/EXEC of lines 58-61 was executed
Committed(p) ==
    SetBoth(call[p].ip, CommittedTokens(call[p].newTokens), CommittedLastUpdated(p))

\* the store after a denied call (lines 69-71: log and return)
\* (variants: the denial stamps last_updated with now; the denial renews the
\* expiry of the keys)
AfterDenialRenew(p) ==
    [k \in DOMAIN store |->
        IF k \in {TokensKey(call[p].ip), LastUpdatedKey(call[p].ip)}
        THEN [store[k] EXCEPT !.exp = Expiry]
        ELSE store[k]]
AfterDenialTouch(p) ==
    IF Present(LastUpdatedKey(call[p].ip))
    THEN [store EXCEPT ![LastUpdatedKey(call[p].ip)].val = call[p].now]
    ELSE store
AfterDenial(p) == store

\* Redis key expiry at real time t
Expire(t) ==
    [k \in {x \in DOMAIN store : store[x].exp = NoExpiry \/ store[x].exp > t} |-> store[k]]

\* ------------------------------------------------------------------- state
\* A request: pc is its position; ret names the return statement it left by
\* ("bad_ip": middleware line 50; "rejected": AllowRequest line 71;
\* "exec_error": line 64; "granted": line 66).
Idle == [pc |-> "idle", ip |-> "", now |-> 0, tokens |-> 0, newTokens |-> 0,
         ret |-> "", allowed |-> FALSE, status |-> 0]

\* NewRedisTokenBucket(client, capacity, refillRate, ttl)
NewRedisTokenBucket(c, r, t) == [capacity |-> c, refillRate |-> r, ttl |-> t]

Configs == {NewRedisTokenBucket(c, r, t) : c \in Capacities, r \in RefillRates, t \in Ttls}

NoReq == [path |-> "", handler |-> ""]
NoWin == [open |-> FALSE, sec |-> 0, grants |-> 0, slow |-> FALSE]
NoSnap == [pairs |-> {}, quiet |-> TRUE]
NoStreak == [n |-> -1, sec |-> 0]
NoChain == [kind |-> "none", sec |-> 0, end |-> 0, ticks |-> FALSE, secs |-> FALSE,
            once |-> FALSE]

InitWith(configs) ==
    /\ cfg \in configs
    /\ time = 0
    /\ skew = 0
    /\ store = << >>
    /\ call = [p \in Procs |-> Idle]
    /\ interfered = [p \in Procs |-> FALSE]
    /\ probe = [began |-> 0, hit |-> FALSE]
    /\ streak = NoStreak
    /\ chain = NoChain
    /\ lastCommit = [t |-> -1, tokens |-> 0, lastUpdated |-> 0]
    /\ reset = [is |-> FALSE, before |-> 0]
    /\ err = [p \in Procs |-> FALSE]
    /\ req = [p \in Procs |-> NoReq]
    /\ win = NoWin
    /\ snap = [p \in Procs |-> NoSnap]

Init == InitWith(Configs)

InFlight(p) == call[p].pc \in {"getTokens", "getLastUpdated", "exec"}

\* the middleware's answer to AllowRequest's result
Respond(allowedv) ==
    IF allowedv THEN StatusTemporaryRedirect ELSE StatusTooManyRequests

\* a request that has left AllowRequest by `how` with result allowedv
Returned(p, how, allowedv) ==
    [Idle EXCEPT !.pc = "done", !.ip = call[p].ip, !.ret = how,
                 !.allowed = allowedv, !.status = Respond(allowedv)]

\* ----------------------------------------------------------------- actions
\* RateLimitMiddleware up to the call of AllowRequest, and AllowRequest's
\* first two lines (redisKey, now := time.Now().Unix()).
Begin(p, ipaddr) ==
    /\ call[p].pc \in {"idle", "done"}
    /\ IF ipaddr = ""
       THEN call' = [call EXCEPT ![p] =
                [Idle EXCEPT !.pc = "done", !.ret = "bad_ip",
                             !.status = StatusBadRequest]]
       ELSE call' = [call EXCEPT ![p] =
                [Idle EXCEPT !.pc = "getTokens", !.ip = ipaddr, !.now = Unix]]
    /\ interfered' = [interfered EXCEPT ![p] = FALSE]
    /\ UNCHANGED <<cfg, time, skew, store>>

\* err != nil after a read: the Get failed (~ok), the key is absent
\* (redis.Nil), or the stored text does not parse
ReadErr(key, ok) == ~(ok /\ Parses(key))

\* the value a read leaves in its variable: the stored value, or the default
\* when err != nil
ReadOr(key, ok, default) ==
    IF ReadErr(key, ok) THEN default ELSE GetVal(key)

\* tokens, err := client.Get(ctx, redisKey+":tokens").Float64()
\* (variant: an empty bucket as the default)
TokensReadEmpty(p, ok) == ReadOr(TokensKey(call[p].ip), ok, 0)
TokensRead(p, ok) == ReadOr(TokensKey(call[p].ip), ok, cfg.capacity)

\* lastUpdated, err := client.Get(ctx, redisKey+":last_updated").Int64()
\* (variant: the zero timestamp as the default)
LastUpdatedReadZero(p, ok) == ReadOr(LastUpdatedKey(call[p].ip), ok, 0)
LastUpdatedRead(p, ok) == ReadOr(LastUpdatedKey(call[p].ip), ok, call[p].now)

GetTokens(p, ok) ==
    /\ call[p].pc = "getTokens"
    /\ call' = [call EXCEPT ![p].pc = "getLastUpdated",
                            ![p].tokens = TokensRead(p, ok)]
    /\ UNCHANGED <<cfg, time, skew, store, interfered>>

\* newTokens as computed from the tokens read and the lastUpdated read now
Refilled(p, ok) ==
    NewTokens(call[p].tokens, Elapsed(call[p].now, LastUpdatedRead(p, ok)))

\* the read of last_updated, elapsed, newTokens and, without a token, the
\* rejection
GetLastUpdated(p, ok) ==
    /\ call[p].pc = "getLastUpdated"
    /\ IF HasToken(Refilled(p, ok))
       THEN /\ call' = [call EXCEPT ![p].pc = "exec", ![p].tokens = 0,
                                    ![p].newTokens = Refilled(p, ok)]
            /\ store' = store
       ELSE /\ call' = [call EXCEPT ![p] = Returned(p, "rejected", FALSE)]
            /\ store' = AfterDenial(p)
    /\ UNCHANGED <<cfg, time, skew, interfered>>

\* What pipe.Exec(ctx) can do: "ok" executed and acknowledged; "fail" not
\* executed, error returned; "lost" executed by the store but the reply did
\* not reach the caller (timeout, cancelled context), error returned.
ExecOutcomes == {"ok", "fail", "lost"}

\* the store after pipe.Exec(ctx) ended with `outcome`
AfterExec(p, outcome) == IF outcome = "fail" THEN store ELSE Committed(p)

\* AllowRequest's return after pipe.Exec: err != nil -> false, else true
\* (variant: err is not looked at)
ExecReturnIgnoringErr(p, outcome) == Returned(p, "granted", TRUE)
ExecReturn(p, outcome) ==
    IF outcome = "ok" THEN Returned(p, "granted", TRUE)
    ELSE Returned(p, "exec_error", FALSE)

\* pipe.Exec(ctx) and the return of AllowRequest
Exec(p, outcome) ==
    /\ call[p].pc = "exec"
    /\ store' = AfterExec(p, outcome)
    /\ call' = [call EXCEPT ![p] = ExecReturn(p, outcome)]
    /\ interfered' = [q \in Procs |->
            IF outcome # "fail" /\ q # p /\ InFlight(q) /\ call[q].ip = call[p].ip
            THEN TRUE ELSE interfered[q]]
    /\ UNCHANGED <<cfg, time, skew>>

\* real time passes; the store drops the keys whose expiry is reached
Tick(limit) ==
    /\ time < limit
    /\ time' = time + 1
    /\ store' = Expire(time + 1)
    /\ UNCHANGED <<cfg, skew, call, interfered>>

\* the service's wall clock is set back by one second (once in a run)
ClockBack ==
    /\ skew = 0
    /\ skew' = skew - 1
    /\ UNCHANGED <<cfg, time, store, call, interfered>>

\* Concurrent requests, failing store operations, a wall clock that may be
\* set back.
Next ==
    \/ \E p \in Procs, ipaddr \in Ips : Begin(p, ipaddr) /\ UNCHANGED <<obs, rest>>
    \/ \E p \in Procs, ok \in BOOLEAN : GetTokens(p, ok) /\ UNCHANGED <<obs, rest>>
    \/ \E p \in Procs, ok \in BOOLEAN : GetLastUpdated(p, ok) /\ UNCHANGED <<obs, rest>>
    \/ \E p \in Procs, outcome \in ExecOutcomes : Exec(p, outcome) /\ UNCHANGED <<obs, rest>>
    \/ Tick(MaxTime) /\ UNCHANGED <<obs, rest>>
    \/ ClockBack /\ UNCHANGED <<obs, rest>>

Spec == Init /\ [][Next]_vars

TypeOK ==
    /\ cfg \in Configs
    /\ time \in 0..MaxTime
    /\ skew \in {-1, 0}
    /\ \A p \in Procs : call[p].pc \in {"idle", "getTokens", "getLastUpdated", "exec", "done"}

\* ------------------------------------------------------- a single caller
\* One caller making one call after another for one ip; store operations
\* succeed and the wall clock is not set back.  The history variables record
\* what the calls did.
Caller == "r1"
Client == "10.0.0.1"

SeqConfigs ==
    {NewRedisTokenBucket(c, r, t) : c \in SeqCapacities, r \in SeqRefillRates, t \in SeqTtls}

InitSeq == InitWith(SeqConfigs)

Fresh(ipaddr) == ~Present(TokensKey(ipaddr)) /\ ~Present(LastUpdatedKey(ipaddr))

TtlTicks == cfg.ttl * TicksPerSec
TtlElapsed == lastCommit.t >= 0 /\ time >= lastCommit.t + TtlTicks

\* 1/refillRate seconds, in ticks and in whole seconds
WaitTicks == (TicksPerSec * One) \div cfg.refillRate
WaitSecs == One \div cfg.refillRate
WholeTicks == cfg.refillRate > 0 /\ (TicksPerSec * One) % cfg.refillRate = 0
WholeSecs == cfg.refillRate > 0 /\ One % cfg.refillRate = 0

\* the call now returning follows a denial by 1/refillRate seconds: counted
\* in real time from the denial's return to this call's begin (ByTicks), or
\* in the unix seconds the two calls sampled, with both reads finding the
\* keys (BySecs)
RefillByTicks == chain.kind = "denied" /\ WholeTicks /\ probe.began = chain.end + WaitTicks
RefillBySecs(h) ==
    chain.kind = "denied" /\ WholeSecs /\ h /\ call[Caller].now = chain.sec + WaitSecs
\* the call now returning follows such a refilled call in the same second
NextByTicks == chain.kind = "granted" /\ chain.ticks /\ call[Caller].now = chain.sec
NextBySecs(h) == chain.kind = "granted" /\ chain.secs /\ h /\ call[Caller].now = chain.sec

ObsBegin ==
    /\ probe' = [began |-> time, hit |-> TRUE]
    /\ streak' = IF Fresh(Client) THEN [n |-> 0, sec |-> Unix]
                 ELSE IF streak.n >= 0 /\ streak.sec = Unix THEN streak
                 ELSE NoStreak
    /\ reset' = IF TtlElapsed THEN [is |-> TRUE, before |-> lastCommit.tokens]
                ELSE [is |-> FALSE, before |-> 0]
    /\ UNCHANGED <<chain, lastCommit>>

ObsRead(key) ==
    /\ probe' = [probe EXCEPT !.hit = probe.hit /\ Present(key)]
    /\ UNCHANGED <<streak, chain, lastCommit, reset>>

\* the call returns `granted`, its reads having found their keys or not (h)
ObsReturn(granted, h) ==
    /\ probe' = [probe EXCEPT !.hit = h]
    /\ streak' = IF /\ streak.n >= 0
                    /\ streak.sec = Unix
                    /\ streak.n * One <= cfg.capacity
                 THEN [streak EXCEPT !.n = streak.n + 1]
                 ELSE NoStreak
    /\ chain' = [kind |-> IF granted THEN "granted" ELSE "denied",
                 sec |-> call[Caller].now,
                 end |-> time,
                 ticks |-> granted /\ RefillByTicks,
                 secs |-> granted /\ RefillBySecs(h),
                 once |-> ~granted /\ NextBySecs(h)]
    /\ lastCommit' = IF granted
                     THEN [t |-> time, tokens |-> call[Caller].newTokens - One,
                           lastUpdated |-> call[Caller].now]
                     ELSE lastCommit
    /\ UNCHANGED reset

SeqBegin == Begin(Caller, Client) /\ ObsBegin /\ UNCHANGED rest

SeqGetTokens ==
    GetTokens(Caller, TRUE) /\ ObsRead(TokensKey(Client)) /\ UNCHANGED rest

SeqGetLastUpdated ==
    /\ GetLastUpdated(Caller, TRUE)
    /\ IF call'[Caller].pc = "exec"
       THEN ObsRead(LastUpdatedKey(Client))
       ELSE ObsReturn(FALSE, probe.hit /\ Present(LastUpdatedKey(Client)))
    /\ UNCHANGED rest

SeqExec == Exec(Caller, "ok") /\ ObsReturn(TRUE, probe.hit) /\ UNCHANGED rest

SeqTick == Tick(SeqMaxTime) /\ UNCHANGED <<obs, rest>>

NextSeq ==
    \/ SeqBegin
    \/ SeqGetTokens
    \/ SeqGetLastUpdated
    \/ SeqExec
    \/ SeqTick

SpecSeq == InitSeq /\ [][NextSeq]_vars

\* ---------------------------------------------------------------- C2
KeysOf(ipaddr) == {TokensKey(ipaddr), LastUpdatedKey(ipaddr)}
Clients == Ips \ {""}

\* the step by which request p commits (pipe.Exec executed by the store)
Commits(p) ==
    /\ call[p].pc = "exec"
    /\ call'[p].pc = "done"
    /\ store' = Committed(p)

Grants(p) == call[p].pc = "exec" /\ call'[p].ret = "granted"

TokensInRange ==
    \A ipaddr \in Clients :
        Present(TokensKey(ipaddr)) =>
            /\ GetVal(TokensKey(ipaddr)) >= 0
            /\ GetVal(TokensKey(ipaddr)) < cfg.capacity

\* C2: after a committed AllowRequest the stored tokens of its ip are
\* refilled - 1, and in every reachable state of the store (concurrent
\* callers, failing operations, key expiry, the clock set back) a stored
\* tokens value is at least 0 and below capacity.
C2_StoredTokensInRange ==
    /\ []TokensInRange
    /\ [][\A p \in Procs :
            Grants(p) =>
                /\ Present(TokensKey(call[p].ip))'
                /\ GetVal(TokensKey(call[p].ip))' = call[p].newTokens - One
                /\ call[p].newTokens - One >= 0
                /\ call[p].newTokens - One < cfg.capacity]_vars

\* a grant made from a negative elapsed time: the clock was set back after
\* the stored lastUpdated was written
C2_Witness ==
    \E p \in Procs :
        /\ call[p].ret = "granted"
        /\ skew = -1
        /\ Present(LastUpdatedKey(call[p].ip))
        /\ GetVal(LastUpdatedKey(call[p].ip)) = -1
        /\ GetVal(TokensKey(call[p].ip)) = 0
        /\ cfg.capacity = MaxCapacity * One

\* ---------------------------------------------------------------- C5
FailsExec(p) == call[p].pc = "exec" /\ call'[p].ret = "exec_error"

\* C5 as stated: when refilled >= 1 and the atomic commit fails, AllowRequest
\* does not return true and the stored state is left unchanged.
C5_FailedCommitLeavesStore ==
    [][\A p \in Procs :
        FailsExec(p) => /\ ~call'[p].allowed
                        /\ store' = store]_vars

\* C5, amended: a call is granted only when its batch was committed; when the
\* commit fails the call returns false, and the store is either unchanged
\* or holds what the batch wrote before its reply was lost: tokens =
\* refilled - 1 (one token fewer than the call computed, never more),
\* lastUpdated = now, both under a fresh expiry.
C5_FailedCommitNeverGrants ==
    [][\A p \in Procs :
        /\ Grants(p) => store' = Committed(p)
        /\ FailsExec(p) =>
            /\ ~call'[p].allowed
            /\ call'[p].status # StatusTemporaryRedirect
            /\ \/ store' = store
               \/ /\ GetVal(TokensKey(call[p].ip))' = call[p].newTokens - One
                  /\ GetVal(TokensKey(call[p].ip))' < call[p].newTokens
                  /\ GetVal(LastUpdatedKey(call[p].ip))' = call[p].now
                  /\ \A k \in KeysOf(call[p].ip) : store'[k].exp = Expiry
                  /\ \A k \in DOMAIN store \ KeysOf(call[p].ip) :
                        k \in DOMAIN store' /\ store'[k] = store[k]]_vars

\* the only call made so far failed to commit, and the store holds what its
\* batch wrote
C5_Witness ==
    \E p \in Procs :
        /\ call[p].ret = "exec_error"
        /\ ~call[p].allowed
        /\ \A q \in Procs \ {p} : call[q].pc = "idle"
        /\ Present(TokensKey(call[p].ip))
        /\ GetVal(TokensKey(call[p].ip)) = cfg.capacity - One
        /\ time = 0

\* ---------------------------------------------------------------- C6
\* C6: what the caller of AllowRequest sees tells a limiter failure (the
\* commit failed) from a denial: a failed call is never answered as a plain
\* allow (307 to the success URL) nor as a plain deny (429).
C6_FailureDistinctFromDenial ==
    \A p \in Procs :
        call[p].ret = "exec_error" =>
            /\ call[p].status # StatusTemporaryRedirect
            /\ call[p].status # StatusTooManyRequests

\* ---------------------------------------------------------------- C7
Rejects(p) == call[p].pc = "getLastUpdated" /\ call'[p].ret = "rejected"

\* C7: a denied AllowRequest (refilled < 1) writes nothing: values and expiry
\* of every key are as before, so the refill clock is not reset and the ttl
\* not extended.
C7_DenialWritesNothing ==
    [][\A p \in Procs : Rejects(p) => store' = store]_vars

\* a denied call on a bucket whose keys are stored
C7_Witness ==
    \E p \in Procs :
        /\ call[p].ret = "rejected"
        /\ Present(TokensKey(call[p].ip))
        /\ Present(LastUpdatedKey(call[p].ip))
        /\ GetVal(LastUpdatedKey(call[p].ip)) < Unix
        /\ cfg.refillRate = 0

\* ---------------------------------------------------------------- C8
SameReads(p, q) ==
    /\ p # q
    /\ call[p].pc = "exec"
    /\ call[q].pc = "exec"
    /\ call[p].ip = call[q].ip
    /\ call[p].now = call[q].now
    /\ call[p].newTokens = call[q].newTokens

\* C8: two calls for one ip that computed the same refilled value from the
\* same reads are both past the decision; when one commits, the other is
\* not stopped and will write the same refilled - 1 again, so the two
\* grants cost one token.
C8_RacingCallsBothCommit ==
    [][\A p, q \in Procs :
        SameReads(p, q) /\ Commits(p) =>
            /\ call'[q] = call[q]
            /\ GetVal(TokensKey(call[q].ip))' = call[q].newTokens - One
            /\ Committed(q)' = store']_vars

\* capacity 1 token, no refill, nothing expired: two requests granted and
\* the store shows one decrement
C8_Witness ==
    /\ cfg.capacity = One
    /\ cfg.refillRate = 0
    /\ time = 0
    /\ \A p \in Procs : call[p].ret = "granted" /\ call[p].ip = "10.0.0.1"
    /\ GetVal(TokensKey("10.0.0.1")) = 0

\* ---------------------------------------------------------------- C9
Replaces(p) == Commits(p) /\ Present(LastUpdatedKey(call[p].ip))

\* C9 as stated: while the wall clock was never set back, no commit replaces
\* a stored lastUpdated by a smaller one, concurrent calls included.
C9_LastUpdatedMonotonic ==
    [][\A p \in Procs :
        skew = 0 /\ Replaces(p) =>
            GetVal(LastUpdatedKey(call[p].ip))' >= GetVal(LastUpdatedKey(call[p].ip))]_vars

\* C9, amended: the same, for a call during which no other call for the ip
\* committed between its sampling of now and its own write.
C9_LastUpdatedMonotonicAlone ==
    [][\A p \in Procs :
        skew = 0 /\ ~interfered[p] /\ Replaces(p) =>
            GetVal(LastUpdatedKey(call[p].ip))' >= GetVal(LastUpdatedKey(call[p].ip))]_vars

\* a later second written over an earlier one
C9_Witness ==
    \E p \in Procs :
        /\ skew = 0
        /\ call[p].ret = "granted"
        /\ ~interfered[p]
        /\ Present(LastUpdatedKey(call[p].ip))
        /\ GetVal(LastUpdatedKey(call[p].ip)) = 1
        /\ GetVal(TokensKey(call[p].ip)) < cfg.capacity - One

\* --------------------------------------------------------------- C10
Decides(p) == call[p].pc = "getLastUpdated" /\ call'[p].pc # "getLastUpdated"

\* C10 as stated: a call that finds one of its two keys absent decides as
\* for a full, freshly stamped bucket (refilled = capacity): it is allowed.
C10_AbsentKeyMeansFullBucket ==
    [][\A p \in Procs :
        Decides(p) /\ ~Present(LastUpdatedKey(call[p].ip)) =>
            /\ call'[p].pc = "exec"
            /\ call'[p].newTokens = cfg.capacity]_vars

\* C10, amended: each absent key is defaulted on its own. An absent tokens
\* key reads as capacity; an absent last_updated key reads as now, so that
\* elapsed = 0 and refilled = min(capacity, tokens as read): the call is
\* allowed exactly when the tokens it read are at least 1.
C10_AbsentKeysDefaultSeparately ==
    [][\A p \in Procs :
        /\ (call[p].pc = "getTokens" /\ call'[p].pc = "getLastUpdated"
              /\ ~Present(TokensKey(call[p].ip)))
            => call'[p].tokens = cfg.capacity
        /\ (Decides(p) /\ ~Present(LastUpdatedKey(call[p].ip)))
            => /\ (call'[p].pc = "exec") = (call[p].tokens >= One)
               /\ call'[p].pc = "exec" =>
                    call'[p].newTokens = Min(cfg.capacity, call[p].tokens)
               /\ call'[p].pc # "exec" => call'[p].ret = "rejected"]_vars

\* a call that read tokens below 1 and then finds last_updated expired
C10_Witness ==
    \E p \in Procs :
        /\ call[p].pc = "getLastUpdated"
        /\ call[p].tokens < One
        /\ ~Present(TokensKey(call[p].ip))
        /\ ~Present(LastUpdatedKey(call[p].ip))

\* ---------------------------------------------------------------- C1
\* C1: for a whole capacity C >= 1, on an ip with no stored keys, with one
\* caller, succeeding store operations and every call begun and ended within
\* one unix second, calls 1..C return true and call C+1 returns false.
C1_FirstCallsAllowed ==
    (call[Caller].pc = "done" /\ streak.n >= 1 /\ (streak.n - 1) * One <= cfg.capacity)
        => /\ streak.n * One <= cfg.capacity => call[Caller].ret = "granted"
           /\ streak.n * One > cfg.capacity => call[Caller].ret = "rejected"

\* call MaxCapacity + 1 of a second, rejected, after MaxCapacity grants
C1_Witness ==
    /\ cfg.capacity = MaxCapacity * One
    /\ streak.n = MaxCapacity + 1
    /\ call[Caller].ret = "rejected"
    /\ GetVal(TokensKey(Client)) = 0

\* ---------------------------------------------------------------- C3
Returns == InFlight(Caller) /\ call'[Caller].pc = "done"

\* C3 as stated: one caller, refillRate > 0; after a denial, a call begun
\* 1/refillRate seconds after the denial returned is allowed, and the call
\* after it, sampling the same second, is denied.
C3_OneTokenAfterWait ==
    [][Returns =>
        /\ RefillByTicks => call'[Caller].ret = "granted"
        /\ NextByTicks => call'[Caller].ret = "rejected"]_vars

\* C3, amended: one caller, store operations succeeding, the clock not set
\* back, refillRate > 0 with 1/refillRate a whole number of seconds; after a
\* denial, a call that samples the unix second 1/refillRate seconds after
\* the one the denied call sampled, and whose reads find both keys, is
\* allowed; the call after it, sampling the same second and finding both
\* keys, is denied.
C3_OneTokenAfterWholeSeconds ==
    [][Returns =>
        /\ RefillBySecs(probe'.hit) => call'[Caller].ret = "granted"
        /\ NextBySecs(probe'.hit) => call'[Caller].ret = "rejected"]_vars

\* denied, allowed 1/refillRate seconds later, denied again in that second
C3_Witness ==
    /\ chain.kind = "denied"
    /\ chain.once
    /\ call[Caller].ret = "rejected"
    /\ chain.sec >= 1

\* ---------------------------------------------------------------- C4
\* C4: once the ttl has elapsed since the last commit with no call in
\* between, both keys are gone, and the next call decides from tokens =
\* capacity and lastUpdated = now: it is allowed and stores capacity - 1 and
\* now, whatever the tokens were before the expiry.
C4_ExpiredBucketIsFull ==
    /\ TtlElapsed => Fresh(Client)
    /\ reset.is =>
        /\ call[Caller].pc = "getLastUpdated" => call[Caller].tokens = cfg.capacity
        /\ call[Caller].pc = "exec" => call[Caller].newTokens = cfg.capacity
        /\ call[Caller].pc = "done" =>
            /\ call[Caller].ret = "granted"
            /\ lastCommit.tokens = cfg.capacity - One
            /\ lastCommit.lastUpdated = probe.began \div TicksPerSec
            /\ Present(TokensKey(Client)) =>
                /\ GetVal(TokensKey(Client)) = cfg.capacity - One
                /\ GetVal(LastUpdatedKey(Client)) = lastCommit.lastUpdated

\* an emptied bucket that could not refill, allowed again after its expiry
C4_Witness ==
    /\ reset.is
    /\ reset.before = 0
    /\ cfg.refillRate = 0
    /\ cfg.capacity = MaxCapacity * One
    /\ call[Caller].ret = "granted"
    /\ Present(TokensKey(Client))
    /\ GetVal(TokensKey(Client)) = cfg.capacity - One

\* ------------------------------------------- a store with foreign content
\* One caller whose reads may fail.  The store is shared: another client may
\* append to a stored value (APPEND keeps the expiry), which leaves text that
\* is not a number.
Garble(key) ==
    /\ Parses(key)
    /\ store' = [store EXCEPT ![key] = [val |-> 0, num |-> FALSE, exp |-> store[key].exp]]
    /\ UNCHANGED <<cfg, time, skew, call, interfered>>

\* err as the read of key leaves it
ErrAfterRead(p, key, ok) == [err EXCEPT ![p] = ReadErr(key, ok)]
\* err where it is nil: before the first read, after an acknowledged Exec
ErrNil(p) == [err EXCEPT ![p] = FALSE]

ForeignBegin ==
    Begin(Caller, Client) /\ err' = ErrNil(Caller) /\ UNCHANGED <<obs, req, win, snap>>

ForeignGetTokens(ok) ==
    /\ GetTokens(Caller, ok)
    /\ err' = ErrAfterRead(Caller, TokensKey(Client), ok)
    /\ UNCHANGED <<obs, req, win, snap>>

ForeignGetLastUpdated(ok) ==
    /\ GetLastUpdated(Caller, ok)
    /\ err' = ErrAfterRead(Caller, LastUpdatedKey(Client), ok)
    /\ UNCHANGED <<obs, req, win, snap>>

ForeignExec == Exec(Caller, "ok") /\ err' = ErrNil(Caller) /\ UNCHANGED <<obs, req, win, snap>>

ForeignGarble(key) == Garble(key) /\ UNCHANGED <<obs, rest>>

ForeignTick == Tick(MaxTime) /\ UNCHANGED <<obs, rest>>

NextForeign ==
    \/ ForeignBegin
    \/ \E ok \in BOOLEAN : ForeignGetTokens(ok)
    \/ \E ok \in BOOLEAN : ForeignGetLastUpdated(ok)
    \/ ForeignExec
    \/ \E key \in KeysOf(Client) : ForeignGarble(key)
    \/ ForeignTick

SpecForeign == Init /\ [][NextForeign]_vars

StatusOK == 200
Routes == {"/api", "/health"}

\* RATE_LIMIT, REFILL_RATE, TTL_SECONDS: whatever ParseFloat / Atoi accept
EnvCapacities == {-One, 0} \cup Capacities
EnvRefillRates == {0, One}
EnvTtls == {0, MaxTtl}

EnvConfigs ==
    {NewRedisTokenBucket(c, r, t) : c \in EnvCapacities, r \in EnvRefillRates, t \in EnvTtls}

InitHttp == InitWith(EnvConfigs)

\* every return of the middleware follows a c.Abort() (lines 49, 65, 71)
Aborted(how) == how \in {"bad_ip", "rejected", "exec_error", "granted"}

\* the route handler gin runs once the middleware has returned by `how`:
\* the one registered for the path, unless the chain was aborted
HandlerRun(path, how) == IF Aborted(how) THEN "none" ELSE path

\* the request as it stands after a step of the middleware
Routed(p, path) ==
    [req EXCEPT ![p] =
        [path |-> path,
         handler |-> IF call'[p].pc = "done" THEN HandlerRun(path, call'[p].ret) ELSE ""]]

HttpBegin(ipaddr, path) ==
    /\ Begin(Caller, ipaddr)
    /\ req' = Routed(Caller, path)
    /\ UNCHANGED <<obs, err, win, snap>>

HttpGetTokens ==
    /\ GetTokens(Caller, TRUE)
    /\ UNCHANGED <<obs, rest>>

HttpGetLastUpdated ==
    /\ GetLastUpdated(Caller, TRUE)
    /\ req' = Routed(Caller, req[Caller].path)
    /\ UNCHANGED <<obs, err, win, snap>>

HttpExec(outcome) ==
    /\ Exec(Caller, outcome)
    /\ req' = Routed(Caller, req[Caller].path)
    /\ UNCHANGED <<obs, err, win, snap>>

HttpTick == Tick(MaxTime) /\ UNCHANGED <<obs, rest>>

NextHttp ==
    \/ \E ipaddr \in Ips, path \in Routes : HttpBegin(ipaddr, path)
    \/ HttpGetTokens
    \/ HttpGetLastUpdated
    \/ \E outcome \in ExecOutcomes : HttpExec(outcome)
    \/ HttpTick

SpecHttp == InitHttp /\ [][NextHttp]_vars

\* --------------------------------------------------------------- C12
\* C12: a limiter with capacity <= 0 or ttl <= 0 is refused when it is
\* constructed, so that no AllowRequest runs under such a configuration.
C12_InvalidConfigNeverRuns ==
    InFlight(Caller) => (cfg.capacity > 0 /\ cfg.ttl > 0)

\* --------------------------------------------------------------- C13
\* C13: handling GET /health consumes nothing: no step of such a request
\* changes a value or an expiry in the store, and the request is answered
\* by the health handler whatever quota its client has left.
C13_HealthConsumesNothing ==
    [][(call'[Caller] # call[Caller]
            /\ req'[Caller].path = "/health"
            /\ call'[Caller].ret # "bad_ip")
        => /\ store' = store
           /\ call'[Caller].pc = "done" => req'[Caller].handler = "/health"]_vars

\* --------------------------------------------------------------- C14
\* C14: a GET /api request for which AllowRequest returned true is answered
\* 200 OK by the /api handler; one for which it returned false is answered
\* 429 and the handler does not run.
C14_ApiAllowedIsServed ==
    (call[Caller].pc = "done" /\ req[Caller].path = "/api" /\ call[Caller].ret # "bad_ip")
        => IF call[Caller].allowed
           THEN call[Caller].status = StatusOK /\ req[Caller].handler = "/api"
           ELSE call[Caller].status = StatusTooManyRequests /\ req[Caller].handler = "none"

\* --------------------------------------------------------------- C15
Paired(ipaddr) ==
    /\ Present(TokensKey(ipaddr)) <=> Present(LastUpdatedKey(ipaddr))
    /\ Present(TokensKey(ipaddr)) =>
            store[TokensKey(ipaddr)].exp = store[LastUpdatedKey(ipaddr)].exp

Kept(ipaddr) ==
    \A k \in KeysOf(ipaddr) :
        /\ (k \in DOMAIN store') <=> (k \in DOMAIN store)
        /\ k \in DOMAIN store => store'[k] = store[k]

\* C15: in every reachable state the tokens key and the last_updated key of
\* an ip are both present or both absent, and when present they expire at
\* the same time; a commit leaves both keys with the expiry commit time +
\* ttl, and every other step leaves the pair as it was or removes both.
C15_KeysLiveAndDieTogether ==
    /\ [](\A ipaddr \in Clients : Paired(ipaddr))
    /\ [][\A p \in Procs :
            Commits(p) =>
                \A k \in KeysOf(call[p].ip) :
                    k \in DOMAIN store' /\ store'[k].exp = time + TtlTicks]_vars
    /\ [][(\A p \in Procs : ~Commits(p)) =>
            \A ipaddr \in Clients : Kept(ipaddr) \/ Fresh(ipaddr)']_vars

\* a commit made after time 0: both keys carry the expiry now + ttl
C15_Witness ==
    \E p \in Procs :
        /\ call[p].ret = "granted"
        /\ time >= 1
        /\ \A k \in KeysOf(call[p].ip) : Present(k) /\ store[k].exp = time + TtlTicks

\* -------------------------------------------------------------- two ips
\* Two clients, each with its own ip, making requests concurrently; store
\* operations succeed.
Other == "10.0.0.2"
TwoClients == {Client, Other}
IpOf(p) == IF p = Caller THEN Client ELSE Other

TwoBegin(p) == Begin(p, IpOf(p)) /\ UNCHANGED <<obs, rest>>
TwoGetTokens(p) == GetTokens(p, TRUE) /\ UNCHANGED <<obs, rest>>
TwoGetLastUpdated(p) == GetLastUpdated(p, TRUE) /\ UNCHANGED <<obs, rest>>
TwoExec(p) == Exec(p, "ok") /\ UNCHANGED <<obs, rest>>
TwoTick == Tick(MaxTime) /\ UNCHANGED <<obs, rest>>

NextTwo ==
    \/ \E p \in Procs : TwoBegin(p)
    \/ \E p \in Procs : TwoGetTokens(p)
    \/ \E p \in Procs : TwoGetLastUpdated(p)
    \/ \E p \in Procs : TwoExec(p)
    \/ TwoTick

SpecTwo == Init /\ [][NextTwo]_vars

\* --------------------------------------------------------------- C16
\* what a call for ipaddr sampling nowv decides from the keys of ipaddr
\* once it has read tokensv
OwnLastUpdated(ipaddr, nowv) ==
    IF Present(LastUpdatedKey(ipaddr)) THEN GetVal(LastUpdatedKey(ipaddr)) ELSE nowv
OwnRefilled(ipaddr, nowv, tokensv) ==
    Min(cfg.capacity, tokensv + ((nowv - OwnLastUpdated(ipaddr, nowv)) * cfg.refillRate))

\* C16: the four keys of two ips are pairwise distinct; a step of a call for
\* one ip leaves the other ip's values and expiries as they were, and what
\* the call reads and decides is given by the two keys of its own ip alone.
C16_IdentifiersIndependent ==
    /\ [](Cardinality(KeysOf(Client) \cup KeysOf(Other)) = 4)
    /\ [][\A p \in Procs :
            call'[p] # call[p] =>
                /\ \A ipaddr \in TwoClients \ {IpOf(p)} : Kept(ipaddr)
                /\ DOMAIN store' \subseteq DOMAIN store \cup KeysOf(IpOf(p))
                /\ (call[p].pc = "getTokens") =>
                        call'[p].tokens =
                            IF Present(TokensKey(IpOf(p))) THEN GetVal(TokensKey(IpOf(p)))
                            ELSE cfg.capacity
                /\ Decides(p) =>
                        (call'[p].pc = "exec")
                            = (OwnRefilled(IpOf(p), call[p].now, call[p].tokens) >= One)
                /\ Grants(p) =>
                        /\ GetVal(TokensKey(IpOf(p)))' = call[p].newTokens - One
                        /\ GetVal(LastUpdatedKey(IpOf(p)))' = call[p].now]_vars

\* one ip with an empty bucket and a denied request, the other, served
\* in a later second, with a token left
C16_Witness ==
    /\ cfg.capacity = MaxCapacity * One
    /\ call[Caller].ret = "rejected"
    /\ \A k \in KeysOf(Client) \cup KeysOf(Other) : Present(k)
    /\ GetVal(TokensKey(Client)) = 0
    /\ GetVal(TokensKey(Other)) = cfg.capacity - One
    /\ GetVal(LastUpdatedKey(Client)) < GetVal(LastUpdatedKey(Other))
    /\ \E p \in Procs \ {Caller} : call[p].ret = "granted"

\* --------------------------------------------------------------- C17
\* min(capacity, tokens + (now - lastUpdatedv) * refillRate) for the tokens
\* request p has read, nothing clamped
Unclamped(p, lastUpdatedv) ==
    Min(cfg.capacity, call[p].tokens + ((call[p].now - lastUpdatedv) * cfg.refillRate))

\* refilled as p's decision shows it is not below the tokens p read
NotBelowTokens(p) ==
    /\ call[p].tokens >= One => call'[p].pc = "exec"
    /\ call'[p].pc = "exec" => call'[p].newTokens >= call[p].tokens

\* the decision is the one the unclamped formula gives, from the stored
\* lastUpdated or, the read failing, from now
DecidesUnclamped(p) ==
    LET stored == OwnLastUpdated(call[p].ip, call[p].now)
    IN /\ call'[p].pc = "exec" =>
            call'[p].newTokens \in {Unclamped(p, stored), Unclamped(p, call[p].now)}
       /\ call'[p].pc # "exec" =>
            (Unclamped(p, stored) < One \/ Unclamped(p, call[p].now) < One)

\* C17 as stated: a negative elapsed time is not clamped, and as long as the
\* clock was not set back refilled is never below the tokens read.
C17_RefillMonotonicUnlessClockBack ==
    [][\A p \in Procs :
        Decides(p) =>
            /\ DecidesUnclamped(p)
            /\ skew = 0 => NotBelowTokens(p)]_vars

\* C17, amended: a negative elapsed time is not clamped; refilled is never
\* below the tokens read as long as the clock was not set back and no other
\* call for the ip committed after this call sampled now.
C17_RefillMonotonicAlone ==
    [][\A p \in Procs :
        Decides(p) =>
            /\ DecidesUnclamped(p)
            /\ (skew = 0 /\ ~interfered[p]) => NotBelowTokens(p)]_vars

\* the clock was set back: a request of an ip whose stored tokens are at
\* least 1 is denied, no other request having been made
C17_Witness ==
    \E p \in Procs :
        /\ skew = -1
        /\ call[p].ret = "rejected"
        /\ \A q \in Procs \ {p} : call[q].pc = "idle"
        /\ Present(TokensKey(call[p].ip))
        /\ GetVal(TokensKey(call[p].ip)) >= One
        /\ GetVal(LastUpdatedKey(call[p].ip)) > Unix

\* ------------------------------------------- a single caller, grants counted
\* One caller, store operations succeeding, the clock not set back.  At the
\* begin of some call a window is opened, in the unix second that call
\* samples; from then on the calls that return true are counted, and it is
\* noted whether one of them returned in a later second than it sampled.
RateBegin(open) ==
    /\ Begin(Caller, Client)
    /\ win' = IF open /\ ~win.open
              THEN [open |-> TRUE, sec |-> Unix, grants |-> 0, slow |-> FALSE]
              ELSE win
    /\ UNCHANGED <<obs, err, req, snap>>

RateGetTokens == GetTokens(Caller, TRUE) /\ UNCHANGED <<obs, rest>>

RateGetLastUpdated == GetLastUpdated(Caller, TRUE) /\ UNCHANGED <<obs, rest>>

RateExec ==
    /\ Exec(Caller, "ok")
    /\ win' = IF win.open
              THEN [win EXCEPT !.grants = win.grants + 1,
                               !.slow = win.slow \/ Unix # call[Caller].now]
              ELSE win
    /\ UNCHANGED <<obs, err, req, snap>>

RateTick == Tick(SeqMaxTime) /\ UNCHANGED <<obs, rest>>

NextRate ==
    \/ \E open \in BOOLEAN : RateBegin(open)
    \/ RateGetTokens
    \/ RateGetLastUpdated
    \/ RateExec
    \/ RateTick

SpecRate == InitSeq /\ [][NextRate]_vars

\* --------------------------------------------------------------- C18
\* the ttl is long enough for refill alone to fill the bucket before the
\* keys expire
RefillBeforeExpiry == cfg.ttl * cfg.refillRate >= cfg.capacity

\* C18 as stated: with one caller, for every configuration, the calls
\* returning true in an interval of d seconds number at most capacity +
\* refillRate * d.  (d is taken generously: the unix seconds from the begin
\* of the window to the present, plus one.)
C18_RateBoundAnyConfig ==
    win.open =>
        win.grants * One <= cfg.capacity + (cfg.refillRate * ((Unix - win.sec) + 1))

\* C18, amended: with one caller, when ttl * refillRate >= capacity and
\* every granted call returns in the unix second it sampled, the calls
\* returning true from the begin of a call in unix second s up to unix
\* second s + d number at most capacity + refillRate * d.
C18_RateBoundWhenRefillBeforeExpiry ==
    (win.open /\ RefillBeforeExpiry /\ ~win.slow) =>
        win.grants * One <= cfg.capacity + (cfg.refillRate * (Unix - win.sec))

\* the bound reached: a window opened after second 0 in which the whole
\* capacity and all the refill of later seconds were granted
C18_Witness ==
    /\ win.open
    /\ RefillBeforeExpiry
    /\ ~win.slow
    /\ win.sec >= 1
    /\ Unix > win.sec
    /\ call[Caller].ret = "granted"
    /\ win.grants * One = cfg.capacity + (cfg.refillRate * (Unix - win.sec))
    /\ cfg.capacity = MaxCapacity * One

\* ------------------------------------------ racing calls, the store watched
\* Two requests of one ip running concurrently, store operations
\* succeeding.  For each request between its begin and its decision the
\* history keeps every pair (tokens, last_updated) the store held for the
\* ip, and whether the pair stayed the same since the request read tokens.
Raw(key) == IF Present(key) THEN <<GetVal(key)>> ELSE << >>
Pair == <<Raw(TokensKey(Client)), Raw(LastUpdatedKey(Client))>>

Watch ==
    snap' = [q \in Procs |->
        IF ~InFlight(q)'
            THEN NoSnap
        ELSE IF call'[q].pc = "exec"
            THEN snap[q]
        ELSE IF ~InFlight(q)
            THEN [pairs |-> {Pair'}, quiet |-> TRUE]
        ELSE [pairs |-> snap[q].pairs \cup {Pair'},
              quiet |-> \/ call[q].pc = "getTokens"
                        \/ snap[q].quiet /\ Pair' = Pair]]

RaceBegin(p) == Begin(p, Client) /\ Watch /\ UNCHANGED <<obs, err, req, win>>
RaceGetTokens(p) == GetTokens(p, TRUE) /\ Watch /\ UNCHANGED <<obs, err, req, win>>
RaceGetLastUpdated(p) ==
    GetLastUpdated(p, TRUE) /\ Watch /\ UNCHANGED <<obs, err, req, win>>
RaceExec(p) == Exec(p, "ok") /\ Watch /\ UNCHANGED <<obs, err, req, win>>
RaceTick == Tick(MaxTime) /\ Watch /\ UNCHANGED <<obs, err, req, win>>

NextRace ==
    \/ \E p \in Procs : RaceBegin(p)
    \/ \E p \in Procs : RaceGetTokens(p)
    \/ \E p \in Procs : RaceGetLastUpdated(p)
    \/ \E p \in Procs : RaceExec(p)
    \/ RaceTick

SpecRace == Init /\ [][NextRace]_vars

\* --------------------------------------------------------------- C19
\* request p, now deciding, decides as from the pair pr: it holds the tokens
\* of pr (capacity for an absent key), and allows or denies as the
\* lastUpdated of pr (now for an absent key) makes it
DecidedFrom(p, pr) ==
    LET tokensv == IF pr[1] = << >> THEN cfg.capacity ELSE pr[1][1]
        lastv == IF pr[2] = << >> THEN call[p].now ELSE pr[2][1]
        refilled == Min(cfg.capacity, tokensv + ((call[p].now - lastv) * cfg.refillRate))
    IN /\ call[p].tokens = tokensv
       /\ (call'[p].pc = "exec") = (refilled >= One)
       /\ call'[p].pc = "exec" => call'[p].newTokens = refilled

\* C19 as stated: every decision is computed from a pair (tokens,
\* lastUpdated) that the store held at one instant of the call.
C19_DecidesFromSnapshot ==
    [][\A p \in Procs :
        Decides(p) => \E pr \in snap[p].pairs : DecidedFrom(p, pr)]_vars

\* C19, amended: a call decides from the pair the store holds when it reads
\* last_updated, provided no commit and no expiry changed the keys of the ip
\* since the call read tokens.
C19_DecidesFromSnapshotWhenQuiet ==
    [][\A p \in Procs :
        (Decides(p) /\ snap[p].quiet) => DecidedFrom(p, Pair)]_vars

\* a request that saw the keys of its ip change after it began, read both
\* with no change in between, and was allowed from stored tokens
C19_Witness ==
    \E p \in Procs :
        /\ call[p].pc = "exec"
        /\ snap[p].quiet
        /\ Cardinality(snap[p].pairs) >= 2
        /\ call[p].newTokens < cfg.capacity

\* ------------------------------------- a single caller that keeps calling
\* The single caller of SpecSeq, with the clock advancing (up to SeqMaxTime)
\* and the caller going on: every call is carried through and followed by
\* another.
SeqCall == SeqBegin \/ SeqGetTokens \/ SeqGetLastUpdated \/ SeqExec

SpecLive ==
    /\ InitSeq
    /\ [][NextSeq]_vars
    /\ WF_vars(SeqTick)
    /\ WF_vars(SeqCall)

\* --------------------------------------------------------------- C20
\* whole seconds after which refill alone has added a token
RefillSecs == (One + cfg.refillRate - 1) \div cfg.refillRate

\* ticks after which a denied ip is allowed again: by refill when
\* refillRate > 0, otherwise by the expiry of its keys
Horizon ==
    IF cfg.refillRate > 0 THEN RefillSecs * TicksPerSec ELSE TtlTicks

\* a denial early enough for the clock to advance by Horizon afterwards
DeniedInTime == call[Caller].ret = "rejected" /\ time + Horizon <= SeqMaxTime

\* C20: with capacity >= 1, ttl > 0, store operations succeeding, the clock
\* advancing and the caller going on calling, a denial is followed by a call
\* that returns true: by refill when refillRate > 0, otherwise by expiry,
\* which denied calls do not put off.
C20_NoPermanentLockOut ==
    DeniedInTime ~> (call[Caller].ret = "granted")

\* at the slowest refill rate, a call allowed 1/refillRate seconds after a
\* denial
C20_Witness ==
    /\ chain.kind = "granted"
    /\ chain.secs
    /\ call[Caller].ret = "granted"
    /\ cfg.refillRate = 1
    /\ cfg.capacity = One
====
